---- MODULE Spec2Model ----
(***************************************************************************)
(* A model of advanced-vector/vector.h: RawMemory<T> (a block of raw       *)
(* storage and its capacity) and Vector<T> (a RawMemory plus a size).      *)
(*                                                                         *)
(* The heap maps a block address to the slots of the block.  A slot holds  *)
(* Raw (no object lives there) or the value of the T object living there.  *)
(* Every public method is one action; the standard algorithms it calls     *)
(* (uninitialized_move_n, uninitialized_copy_n, destroy_n, move_backward,  *)
(* move) are operators on slot sequences.  An exception is an input of the *)
(* action: fail = 0 is a call in which nothing throws, fail = 1 a call in  *)
(* which the construction of the new element (or of a value-initialised    *)
(* element) throws, fail = 1 + k a call in which the copy of the k-th      *)
(* existing element throws.  Reading, assigning to or destroying a Raw     *)
(* slot is undefined behaviour: the value read is any value (g), and the   *)
(* step is flagged (last.ub).  Moves of T do not throw in the model, and    *)
(* operator new does not fail.                                             *)
(*                                                                         *)
(* A run is followed up to its first fault: after a call that ran into     *)
(* undefined behaviour or lost an element no further call is made, and     *)
(* when a call left a Vector whose size_ does not match the objects in its *)
(* block only destructors still run.  Addresses are renumbered after every *)
(* call (the blocks of "a", then of "b"), so an address means something    *)
(* only within one state.  Spec is two Vector objects of a T whose move    *)
(* changes its source, with every method, and records of a call which      *)
(* method it was and how it ended; SpecOne is one Vector of any T with the *)
(* single-object methods, and records the inputs of each call as well.     *)
(* SpecAssert is SpecOne plus Erase(end()), the one call an assertion of   *)
(* the class lets through outside the documented precondition; SpecRaw is  *)
(* two RawMemory objects on their own, with the move constructor and move  *)
(* assignment that Vector never calls.                                     *)
(***************************************************************************)
EXTENDS Integers, Sequences, FiniteSets, TLC

VARIABLES vec, heap, T, last

vars == <<vec, heap, T, last>>

\* ------------------------------------------------------------------ bounds
\* The largest capacity asked for, of a vector alone and of one of two vectors
MaxCap == 4
MaxCapTwo == 2
\* Blocks that can be allocated at once: one a vector and one for a temporary
\* new_data or copy
NBlocks == 3
\* The width of size_t in the model
SizeBits == 16

\* ---------------------------------------------------------------- universe
Vecs == {"a", "b"}
Blocks == 1..NBlocks
Values == {0, 1}
Default == 0
Raw == -1
NullPtr == 0

\* The element type: is_nothrow_move_constructible_v<T>, and whether a move
\* leaves the moved-from object changed (it then holds T's default value, as
\* a moved-from string or unique_ptr does).  T is copy constructible.
TypeKinds == [nothrow_move : BOOLEAN, move_clears : BOOLEAN]

\* An argument of PushBack/Insert: a value of its own (alias = 0), or a
\* reference to the element at index alias - 1 of the vector itself.
ArgOwn(x) == [alias |-> 0, val |-> x]
ArgRef(j) == [alias |-> j, val |-> Default]

\* ------------------------------------------------------------ T's operations
Read(x, g) == IF x = Raw THEN g ELSE x

MovedFrom(x) == IF x = Raw THEN Raw ELSE IF T.move_clears THEN Default ELSE x

ArgValue(s, arg, g) == IF arg.alias = 0 THEN arg.val ELSE Read(s[arg.alias], g)

\* ------------------------------------------------------- slot-range helpers
InRange(i, first, n) == first <= i /\ i < first + n

AnyRaw(s, first, n) == \E i \in DOMAIN s : InRange(i, first, n) /\ s[i] = Raw

AnyLive(s, first, n) == \E i \in DOMAIN s : InRange(i, first, n) /\ s[i] # Raw

\* new (p) T(x)
ConstructAt(s, i, x) == [s EXCEPT ![i] = x]

\* std::destroy_n(first, n)
DestroyN(s, first, n) == [i \in DOMAIN s |-> IF InRange(i, first, n) THEN Raw ELSE s[i]]

\* A variant of uninitialized_move_n that moves *first into every destination
UninitMoveFirstOnly(src, first, n, dst, dfirst, g) ==
    [i \in DOMAIN dst |-> IF InRange(i, dfirst, n) THEN Read(src[first], g) ELSE dst[i]]

\* std::uninitialized_move_n(first, n, d_first): the destination block
UninitMoveDst(src, first, n, dst, dfirst, g) ==
    [i \in DOMAIN dst |->
        IF InRange(i, dfirst, n) THEN Read(src[first + (i - dfirst)], g) ELSE dst[i]]

\* std::uninitialized_move_n(first, n, d_first): the source block
UninitMoveSrc(src, first, n) ==
    [i \in DOMAIN src |-> IF InRange(i, first, n) THEN MovedFrom(src[i]) ELSE src[i]]

\* A variant of uninitialized_copy_n that copies n - 1 objects
UninitCopyShort(src, first, n, dst, dfirst, failk, g) ==
    IF failk \in 1..n
    THEN DestroyN(dst, dfirst, failk - 1)
    ELSE [i \in DOMAIN dst |->
            IF InRange(i, dfirst, n - 1) THEN Read(src[first + (i - dfirst)], g) ELSE dst[i]]

\* std::uninitialized_copy_n(first, n, d_first); when the failk-th copy throws
\* the algorithm destroys the failk - 1 copies it made and rethrows
UninitCopyN(src, first, n, dst, dfirst, failk, g) ==
    IF failk \in 1..n
    THEN DestroyN(dst, dfirst, failk - 1)
    ELSE [i \in DOMAIN dst |->
            IF InRange(i, dfirst, n) THEN Read(src[first + (i - dfirst)], g) ELSE dst[i]]

\* A variant of std::move that stops one element before last
RECURSIVE MoveAllButLast(_, _, _, _, _)
MoveAllButLast(s, first, lst, dfirst, g) ==
    IF first >= lst - 1 THEN s
    ELSE MoveAllButLast([s EXCEPT ![dfirst] = Read(s[first], g),
                                  ![first] = MovedFrom(s[first])],
                        first + 1, lst, dfirst + 1, g)

\* std::move(first, last, d_first) inside one block, ranges [first, last)
RECURSIVE MoveForward(_, _, _, _, _)
MoveForward(s, first, lst, dfirst, g) ==
    IF first >= lst THEN s
    ELSE MoveForward([s EXCEPT ![dfirst] = Read(s[first], g),
                               ![first] = MovedFrom(s[first])],
                     first + 1, lst, dfirst + 1, g)

\* A variant of move_backward that moves front to back, as std::move does
MoveFrontToBack(s, first, lst, dlast, g) == MoveForward(s, first, lst, dlast - (lst - first), g)

\* std::move_backward(first, last, d_last) inside one block, ranges [first, last)
RECURSIVE MoveBackward(_, _, _, _, _)
MoveBackward(s, first, lst, dlast, g) ==
    IF first >= lst THEN s
    ELSE MoveBackward([s EXCEPT ![dlast - 1] = Read(s[lst - 1], g),
                                ![lst - 1] = MovedFrom(s[lst - 1])],
                      first, lst - 1, dlast - 1, g)

\* ---------------------------------------------------------------- RawMemory
\* The slots of the block at address b (none at nullptr)
Slots(h, b) == IF b = NullPtr THEN <<>> ELSE h[b]

\* Allocate(n): the address operator new returns (the lowest free one)
FreeBlock(h) == CHOOSE b \in Blocks : h[b] = <<>> /\ \A c \in Blocks : h[c] = <<>> => b <= c

Allocate(h, n) == IF n = 0 THEN NullPtr ELSE FreeBlock(h)

\* The heap after RawMemory(n) placed its block at address b
Allocated(h, b, n) == IF b = NullPtr THEN h ELSE [h EXCEPT ![b] = [i \in 1..n |-> Raw]]

\* The heap with the slots of block b replaced
Store(h, b, s) == IF b = NullPtr THEN h ELSE [h EXCEPT ![b] = s]

\* ~RawMemory: Deallocate(buffer_)
Deallocate(h, b) == IF b = NullPtr THEN h ELSE [h EXCEPT ![b] = <<>>]

\* A RawMemory and a Vector as records
EmptyVector == [alive |-> TRUE, buffer |-> NullPtr, capacity |-> 0, size |-> 0]

NoVector == [alive |-> FALSE, buffer |-> NullPtr, capacity |-> 0, size |-> 0]

\* What a call did: the Vector after it, the heap after it, "ok" or "throw",
\* the index the returned iterator points to, and whether the call ran into
\* undefined behaviour or lost a live element (released or overwrote it
\* without destroying it)
Outcome(vr, h, res, ret, ub, leak) ==
    [vr |-> vr, heap |-> h, res |-> res, ret |-> ret, ub |-> ub, leak |-> leak]

\* --------------------------------------------------------------- Vector<T>
\* A variant of the growth rule that grows by one slot
GrownByOne(size, cap) == cap + 1

\* size_ == 0 ? 1 : Capacity() * 2
GrownCapacity(size, cap) == IF size = 0 THEN 1 ELSE cap * 2

\* std::is_nothrow_move_constructible_v<T> || !std::is_copy_constructible_v<T>
UseMove == T.nothrow_move

\* A variant of Reserve that adopts the new block before it copies into it
ReserveAdoptsFirst(vr, h, n, fail, g) ==
    IF n <= vr.capacity THEN Outcome(vr, h, "ok", -1, FALSE, FALSE)
    ELSE
      LET size == vr.size
          old == Slots(h, vr.buffer)
          nb == Allocate(h, n)
          h1 == Allocated(h, nb, n)
          ub == AnyRaw(old, 1, size)
          failk == IF UseMove THEN 0 ELSE fail - 1
          new == UninitCopyN(old, 1, size, h1[nb], 1, failk, g)
          old1 == DestroyN(IF UseMove THEN UninitMoveSrc(old, 1, size) ELSE old, 1, size)
      IN IF failk \in 1..size
         THEN Outcome([vr EXCEPT !.buffer = nb, !.capacity = n],
                      Store(h1, nb, new), "throw", -1, AnyRaw(old, 1, failk), TRUE)
         ELSE Outcome([vr EXCEPT !.buffer = nb, !.capacity = n],
                      Deallocate(Store(h1, nb, new), vr.buffer),
                      "ok", -1, ub, AnyLive(old1, 1, Len(old1)))

\* Vector::Reserve
ReserveOp(vr, h, n, fail, g) ==
    IF n <= vr.capacity THEN Outcome(vr, h, "ok", -1, FALSE, FALSE)
    ELSE
      LET size == vr.size
          old == Slots(h, vr.buffer)
          nb == Allocate(h, n)
          h1 == Allocated(h, nb, n)
          ub == AnyRaw(old, 1, size)
      IN IF UseMove
         THEN LET new == UninitMoveDst(old, 1, size, h1[nb], 1, g)
                  old1 == DestroyN(UninitMoveSrc(old, 1, size), 1, size)
              IN Outcome([vr EXCEPT !.buffer = nb, !.capacity = n],
                         Deallocate(Store(h1, nb, new), vr.buffer),
                         "ok", -1, ub, AnyLive(old1, 1, Len(old1)))
         ELSE IF fail - 1 \in 1..size
              THEN Outcome(vr, h, "throw", -1, AnyRaw(old, 1, fail - 1), FALSE)
              ELSE LET new == UninitCopyN(old, 1, size, h1[nb], 1, 0, g)
                       old1 == DestroyN(old, 1, size)
                   IN Outcome([vr EXCEPT !.buffer = nb, !.capacity = n],
                              Deallocate(Store(h1, nb, new), vr.buffer),
                              "ok", -1, ub, AnyLive(old1, 1, Len(old1)))

\* A variant of the in-place EmplaceBack that counts the element before it
\* constructs it
EmplaceBackCountsFirst(vr, h, x, argub, fail) ==
    LET size == vr.size
        old == Slots(h, vr.buffer)
    IN IF fail = 1
       THEN Outcome([vr EXCEPT !.size = size + 1], h, "throw", -1, FALSE, FALSE)
       ELSE Outcome([vr EXCEPT !.size = size + 1],
                    Store(h, vr.buffer, ConstructAt(old, size + 1, x)),
                    "ok", size, argub, old[size + 1] # Raw)

\* Vector::EmplaceBack, size_ < Capacity(): new (data_ + size_) T(args...); ++size_
EmplaceBackInPlace(vr, h, x, argub, fail) ==
    LET size == vr.size
        old == Slots(h, vr.buffer)
    IN IF fail = 1
       THEN Outcome(vr, h, "throw", -1, FALSE, FALSE)
       ELSE Outcome([vr EXCEPT !.size = size + 1],
                    Store(h, vr.buffer, ConstructAt(old, size + 1, x)),
                    "ok", size, argub, old[size + 1] # Raw)

\* Vector::EmplaceBack
EmplaceBackOp(vr, h, arg, fail, g) ==
    LET size == vr.size
        cap == vr.capacity
        old == Slots(h, vr.buffer)
        x == ArgValue(old, arg, g)
        argub == arg.alias # 0 /\ old[arg.alias] = Raw
    IN IF size = cap
       THEN
         LET ncap == GrownCapacity(size, cap)
             nb == Allocate(h, ncap)
             h1 == Allocated(h, nb, ncap)
             placed == ConstructAt(h1[nb], size + 1, x)
             ub == argub \/ AnyRaw(old, 1, size)
         IN IF fail = 1
            THEN Outcome(vr, h, "throw", -1, FALSE, FALSE)
            ELSE IF UseMove
            THEN LET new == UninitMoveDst(old, 1, size, placed, 1, g)
                     old1 == DestroyN(UninitMoveSrc(old, 1, size), 1, size)
                 IN Outcome([vr EXCEPT !.buffer = nb, !.capacity = ncap, !.size = size + 1],
                            Deallocate(Store(h1, nb, new), vr.buffer),
                            "ok", size, ub, AnyLive(old1, 1, Len(old1)))
            ELSE IF fail - 1 \in 1..size
            THEN \* uninitialized_copy_n throws: new_data is released with the
                 \* new element still constructed in it
                 LET new == UninitCopyN(old, 1, size, placed, 1, fail - 1, g)
                 IN Outcome(vr, h, "throw", -1, argub \/ AnyRaw(old, 1, fail - 1),
                            AnyLive(new, 1, Len(new)))
            ELSE LET new == UninitCopyN(old, 1, size, placed, 1, 0, g)
                     old1 == DestroyN(old, 1, size)
                 IN Outcome([vr EXCEPT !.buffer = nb, !.capacity = ncap, !.size = size + 1],
                            Deallocate(Store(h1, nb, new), vr.buffer),
                            "ok", size, ub, AnyLive(old1, 1, Len(old1)))
       ELSE EmplaceBackInPlace(vr, h, x, argub, fail)

\* Vector::Emplace; pos is the index of the position, 0 .. size_
EmplaceOp(vr, h, pos, arg, fail, g) ==
    LET size == vr.size
        cap == vr.capacity
        old == Slots(h, vr.buffer)
        argub == arg.alias # 0 /\ old[arg.alias] = Raw
    IN IF pos = size
       THEN EmplaceBackOp(vr, h, arg, fail, g)
       ELSE IF size = cap
       THEN
         LET ncap == GrownCapacity(size, cap)
             nb == Allocate(h, ncap)
             h1 == Allocated(h, nb, ncap)
             x == ArgValue(old, arg, g)
             placed == ConstructAt(h1[nb], pos + 1, x)
             ub == argub \/ AnyRaw(old, 1, size)
             k == fail - 1
         IN IF fail = 1
            THEN Outcome(vr, h, "throw", -1, FALSE, FALSE)
            ELSE IF UseMove
            THEN LET new1 == UninitMoveDst(old, 1, pos, placed, 1, g)
                     new2 == UninitMoveDst(old, pos + 1, size - pos, new1, pos + 2, g)
                     old1 == DestroyN(UninitMoveSrc(UninitMoveSrc(old, 1, pos),
                                                    pos + 1, size - pos), 1, size)
                 IN Outcome([vr EXCEPT !.buffer = nb, !.capacity = ncap, !.size = size + 1],
                            Deallocate(Store(h1, nb, new2), vr.buffer),
                            "ok", pos, ub, AnyLive(old1, 1, Len(old1)))
            ELSE IF k \in 1..pos
            THEN \* the first uninitialized_copy_n throws: destroy_n(new_data + num_pos, 1)
                 LET new1 == UninitCopyN(old, 1, pos, placed, 1, k, g)
                     new2 == DestroyN(new1, pos + 1, 1)
                 IN Outcome(vr, h, "throw", -1, argub \/ AnyRaw(old, 1, k),
                            AnyLive(new2, 1, Len(new2)))
            ELSE IF k \in (pos + 1)..size
            THEN \* the second uninitialized_copy_n throws: destroy_n(new_data + 0, num_pos)
                 LET new1 == UninitCopyN(old, 1, pos, placed, 1, 0, g)
                     new2 == UninitCopyN(old, pos + 1, size - pos, new1, pos + 2, k - pos, g)
                     new3 == DestroyN(new2, 1, pos)
                 IN Outcome(vr, h, "throw", -1, argub \/ AnyRaw(old, 1, k),
                            AnyLive(new3, 1, Len(new3)))
            ELSE LET new1 == UninitCopyN(old, 1, pos, placed, 1, 0, g)
                     new2 == UninitCopyN(old, pos + 1, size - pos, new1, pos + 2, 0, g)
                     old1 == DestroyN(old, 1, size)
                 IN Outcome([vr EXCEPT !.buffer = nb, !.capacity = ncap, !.size = size + 1],
                            Deallocate(Store(h1, nb, new2), vr.buffer),
                            "ok", pos, ub, AnyLive(old1, 1, Len(old1)))
       ELSE
         \* size_ != 0 here, since pos < size_
         LET \* new(end()) T(std::forward<T>(data_[size_ - 1]))
             s1 == [ConstructAt(old, size + 1, Read(old[size], g))
                       EXCEPT ![size] = MovedFrom(old[size])]
             \* T copy(std::forward<Args>(args)...)
             copy == ArgValue(s1, arg, g)
             \* std::move_backward(begin() + num_pos, end() - 1, end())
             s2 == MoveBackward(s1, pos + 1, size, size + 1, g)
             \* *(data_ + num_pos) = std::move(copy)
             s3 == [s2 EXCEPT ![pos + 1] = copy]
             ub == argub \/ AnyRaw(old, pos + 1, size - pos)
         IN IF fail = 1
            THEN Outcome(vr, Store(h, vr.buffer, s1), "throw", -1, old[size] = Raw, TRUE)
            ELSE Outcome([vr EXCEPT !.size = size + 1], Store(h, vr.buffer, s3),
                         "ok", pos, ub, old[size + 1] # Raw)

\* A variant of Erase that destroys the last element without the shift
EraseDropsLast(vr, h, pos, g) ==
    LET size == vr.size
        old == Slots(h, vr.buffer)
    IN Outcome([vr EXCEPT !.size = size - 1], Store(h, vr.buffer, DestroyN(old, size, 1)),
               "ok", pos, AnyRaw(old, pos + 1, size - pos), FALSE)

\* Vector::Erase; pos is the index of the position, below size_
EraseOp(vr, h, pos, g) ==
    LET size == vr.size
        old == Slots(h, vr.buffer)
        \* std::move(begin() + num_pos + 1, end(), begin() + num_pos)
        s1 == MoveForward(old, pos + 2, size + 1, pos + 1, g)
        \* std::destroy_at(end() - 1)
        s2 == DestroyN(s1, size, 1)
    IN Outcome([vr EXCEPT !.size = size - 1], Store(h, vr.buffer, s2),
               "ok", pos, AnyRaw(old, pos + 1, size - pos), FALSE)

\* A variant of PopBack that forgets the element without destroying it
PopBackKeepsObject(vr, h) ==
    Outcome([vr EXCEPT !.size = vr.size - 1], h, "ok", -1, FALSE, FALSE)

\* Vector::Erase(end()), which the assertion pos <= end() lets through.  The
\* range [end() + 1, end()) handed to std::move is not a range: undefined
\* behaviour, and a run that goes on has moved nothing.  std::destroy_at then
\* destroys what is before end(), the last element or, in an empty vector,
\* no element at all; --size_ is computed in size_t.
EraseEndOp(vr, h) ==
    LET size == vr.size
        old == Slots(h, vr.buffer)
    IN Outcome([vr EXCEPT !.size = (size - 1) % (2 ^ SizeBits)],
               Store(h, vr.buffer, DestroyN(old, size, 1)),
               "ok", size, TRUE, FALSE)

\* Vector::PopBack
PopBackOp(vr, h) ==
    LET size == vr.size
        old == Slots(h, vr.buffer)
    IN Outcome([vr EXCEPT !.size = size - 1], Store(h, vr.buffer, DestroyN(old, size, 1)),
               "ok", -1, old[size] = Raw, FALSE)

\* A variant of uninitialized_value_construct_n that constructs n - 1 objects
ValueConstructShort(s, first, n) ==
    [i \in DOMAIN s |-> IF InRange(i, first, n - 1) THEN Default ELSE s[i]]

\* std::uninitialized_value_construct_n(first, n)
ValueConstructN(s, first, n) == [i \in DOMAIN s |-> IF InRange(i, first, n) THEN Default ELSE s[i]]

\* Vector::Resize
ResizeOp(vr, h, n, fail, g) ==
    LET size == vr.size
        old == Slots(h, vr.buffer)
    IN IF n < size
       THEN Outcome([vr EXCEPT !.size = n], Store(h, vr.buffer, DestroyN(old, n + 1, size - n)),
                    "ok", -1, AnyRaw(old, n + 1, size - n), FALSE)
       ELSE IF n > size
       THEN LET r == ReserveOp(vr, h, n, fail, g)
                s == Slots(r.heap, r.vr.buffer)
            IN IF r.res = "throw" THEN r
               ELSE IF fail = 1
               THEN Outcome(r.vr, r.heap, "throw", -1, r.ub, r.leak)
               ELSE Outcome([r.vr EXCEPT !.size = n],
                            Store(r.heap, r.vr.buffer, ValueConstructN(s, size + 1, n - size)),
                            "ok", -1, r.ub, r.leak \/ AnyLive(s, size + 1, n - size))
       ELSE Outcome(vr, h, "ok", -1, FALSE, FALSE)

\* Vector::Vector(size_t size)
SizedCtorOp(h, n, fail) ==
    LET nb == Allocate(h, n)
        h1 == Allocated(h, nb, n)
    IN IF fail = 1 /\ n > 0
       THEN Outcome(NoVector, h, "throw", -1, FALSE, FALSE)
       ELSE Outcome([alive |-> TRUE, buffer |-> nb, capacity |-> n, size |-> n],
                    Store(h1, nb, ValueConstructN(Slots(h1, nb), 1, n)),
                    "ok", -1, FALSE, FALSE)

\* A variant of the copy constructor that shares the block of other
CopyCtorShallow(h, other, fail, g) ==
    IF fail - 1 \in 1..other.size
    THEN Outcome(NoVector, h, "throw", -1, FALSE, FALSE)
    ELSE Outcome(other, h, "ok", -1, FALSE, FALSE)

\* Vector::Vector(const Vector& other)
CopyCtorOp(h, other, fail, g) ==
    LET n == other.size
        src == Slots(h, other.buffer)
        nb == Allocate(h, n)
        h1 == Allocated(h, nb, n)
    IN IF fail - 1 \in 1..n
       THEN Outcome(NoVector, h, "throw", -1, AnyRaw(src, 1, fail - 1), FALSE)
       ELSE Outcome([alive |-> TRUE, buffer |-> nb, capacity |-> n, size |-> n],
                    Store(h1, nb, UninitCopyN(src, 1, n, Slots(h1, nb), 1, 0, g)),
                    "ok", -1, AnyRaw(src, 1, n), FALSE)

\* Vector::~Vector, then ~RawMemory
DtorOp(vr, h) ==
    LET old == Slots(h, vr.buffer)
        s1 == DestroyN(old, 1, vr.size)
    IN Outcome(NoVector, Deallocate(h, vr.buffer), "ok", -1,
               AnyRaw(old, 1, vr.size), AnyLive(s1, 1, Len(s1)))

\* What a call on two vectors did: both vectors and the heap after it
Outcome2(vr, wr, h, res, ub, leak) ==
    [vr |-> vr, wr |-> wr, heap |-> h, res |-> res, ret |-> -1, ub |-> ub, leak |-> leak]

\* Vector::Swap (RawMemory::Swap and std::swap(size_, other.size_))
SwapOp(vr, wr, h) == Outcome2(wr, vr, h, "ok", FALSE, FALSE)

\* Vector::Vector(Vector&& other): a default Vector, then Swap(other)
MoveCtorOp(wr, h) == SwapOp(EmptyVector, wr, h)

\* A variant of move assignment without the test rhs.size_ > data_.Capacity()
MoveAssignNoCheck(vr, wr, h) ==
    Outcome2([vr EXCEPT !.buffer = wr.buffer, !.capacity = wr.capacity, !.size = wr.size],
             [wr EXCEPT !.buffer = vr.buffer, !.capacity = vr.capacity],
             h, "ok", FALSE, FALSE)

\* A variant of move assignment without size_ = rhs.Size()
MoveAssignKeepsSize(vr, wr, h) ==
    IF wr.size > vr.capacity
    THEN SwapOp(vr, wr, h)
    ELSE Outcome2([vr EXCEPT !.buffer = wr.buffer, !.capacity = wr.capacity],
                  [wr EXCEPT !.buffer = vr.buffer, !.capacity = vr.capacity],
                  h, "ok", FALSE, FALSE)

\* Vector::operator=(Vector&& rhs), this != &rhs
MoveAssignOp(vr, wr, h) ==
    IF wr.size > vr.capacity
    THEN SwapOp(vr, wr, h)
    ELSE \* data_.Swap(rhs.data_); size_ = rhs.Size();
         Outcome2([vr EXCEPT !.buffer = wr.buffer, !.capacity = wr.capacity, !.size = wr.size],
                  [wr EXCEPT !.buffer = vr.buffer, !.capacity = vr.capacity],
                  h, "ok", FALSE, FALSE)

\* A variant of the assignment loop that stops one element early
CopyAssignPrefixShort(dst, src, n, failk, g) ==
    LET done == IF failk \in 1..n THEN failk - 1 ELSE n
    IN [i \in DOMAIN dst |-> IF i < done THEN Read(src[i], g) ELSE dst[i]]

\* data_[i] = rhs.data_[i] for i < n; the failk-th assignment throws
CopyAssignPrefix(dst, src, n, failk, g) ==
    LET done == IF failk \in 1..n THEN failk - 1 ELSE n
    IN [i \in DOMAIN dst |-> IF i <= done THEN Read(src[i], g) ELSE dst[i]]

\* Vector::operator=(const Vector& rhs), this != &rhs
CopyAssignOp(vr, wr, h, fail, g) ==
    LET dst == Slots(h, vr.buffer)
        src == Slots(h, wr.buffer)
        k == fail - 1
    IN IF wr.size > vr.capacity
       THEN \* Vector copy(rhs); Swap(copy); then ~copy
            LET c == CopyCtorOp(h, wr, fail, g)
                d == DtorOp(vr, c.heap)
            IN IF c.res = "throw"
               THEN Outcome2(vr, wr, h, "throw", c.ub, FALSE)
               ELSE Outcome2([c.vr EXCEPT !.size = wr.size], wr, d.heap, "ok",
                             c.ub \/ d.ub, d.leak)
       ELSE IF vr.size > wr.size
       THEN LET s1 == CopyAssignPrefix(dst, src, wr.size, k, g)
                s2 == DestroyN(s1, wr.size + 1, vr.size - wr.size)
            IN IF k \in 1..wr.size
               THEN Outcome2(vr, wr, Store(h, vr.buffer, s1), "throw",
                             AnyRaw(dst, 1, k) \/ AnyRaw(src, 1, k), FALSE)
               ELSE Outcome2([vr EXCEPT !.size = wr.size], wr, Store(h, vr.buffer, s2), "ok",
                             AnyRaw(dst, 1, vr.size) \/ AnyRaw(src, 1, wr.size), FALSE)
       ELSE LET s1 == CopyAssignPrefix(dst, src, vr.size, k, g)
                s2 == UninitCopyN(src, vr.size + 1, wr.size - vr.size, s1, vr.size + 1,
                                  k - vr.size, g)
            IN IF k \in 1..vr.size
               THEN Outcome2(vr, wr, Store(h, vr.buffer, s1), "throw",
                             AnyRaw(dst, 1, k) \/ AnyRaw(src, 1, k), FALSE)
               ELSE IF k \in (vr.size + 1)..wr.size
               THEN Outcome2(vr, wr, Store(h, vr.buffer, s2), "throw",
                             AnyRaw(dst, 1, vr.size) \/ AnyRaw(src, 1, k), FALSE)
               ELSE Outcome2([vr EXCEPT !.size = wr.size], wr, Store(h, vr.buffer, s2), "ok",
                             AnyRaw(dst, 1, vr.size) \/ AnyRaw(src, 1, wr.size),
                             AnyLive(s1, vr.size + 1, wr.size - vr.size))

\* Vector::operator[] used for a write, index < size_
SetElemOp(vr, h, i, x) ==
    LET old == Slots(h, vr.buffer)
    IN Outcome(vr, Store(h, vr.buffer, [old EXCEPT ![i + 1] = x]), "ok", -1,
               old[i + 1] = Raw, FALSE)

\* ------------------------------------------------------------------ actions
\* The record of the call just made: the method, the vectors, whether it had
\* to allocate, how it ended, whether data_ of the vector called on is at
\* another address than before; with d also its inputs, the exception thrown
\* into it and the position it returned.  orig and round are set by Insert
\* and Erase: the elements before a successful Insert, and in the record of
\* an Erase whether it erased at the iterator the Insert just before returned
Call(d, op, v, w, pos, alias, val, fail, grow, o) ==
    [op |-> op, v |-> v, w |-> w, grow |-> grow, res |-> o.res, ub |-> o.ub,
     leak |-> o.leak,
     moved |-> vec[v].alive /\ o.vr.alive /\ o.vr.buffer # vec[v].buffer,
     orig |-> <<>>, round |-> FALSE,
     pos |-> IF d THEN pos ELSE -1,
     alias |-> IF d THEN alias ELSE 0,
     val |-> IF d THEN val ELSE Default,
     fail |-> IF d THEN fail ELSE 0,
     ret |-> IF d THEN o.ret ELSE -1]

NoCall ==
    [op |-> "none", v |-> "a", w |-> "a", pos |-> -1, alias |-> 0, val |-> Default,
     fail |-> 0, grow |-> FALSE, res |-> "ok", ret |-> -1, ub |-> FALSE, leak |-> FALSE,
     moved |-> FALSE, orig |-> <<>>, round |-> FALSE]

\* The inputs of a call
Args(vr) == {ArgOwn(x) : x \in Values} \cup {ArgRef(j) : j \in 1..vr.size}

Garbage(vr) == IF AnyRaw(Slots(heap, vr.buffer), 1, vr.size) THEN Values ELSE {Default}

CopyFails(vr, grow) == IF grow /\ ~UseMove THEN {1 + k : k \in 1..vr.size} ELSE {}

\* The bound on capacities: MaxCap where the inputs of the calls are recorded
\* (one vector alone), MaxCapTwo otherwise
Cap(d) == IF d THEN MaxCap ELSE MaxCapTwo

CanGrow(vr, d) == vr.size = vr.capacity => GrownCapacity(vr.size, vr.capacity) <= Cap(d)

\* An address is only ever compared with another one, so the state keeps the
\* blocks numbered in the order of the vectors that own them: the blocks of
\* "a" and "b" first, then the blocks no vector owns
VecOrder == <<"a", "b">>

RECURSIVE OwnedBlocks(_, _)
OwnedBlocks(vs, i) ==
    IF i = 0 THEN <<>>
    ELSE LET prev == OwnedBlocks(vs, i - 1)
             b == vs[VecOrder[i]].buffer
         IN IF b = NullPtr \/ \E k \in DOMAIN prev : prev[k] = b THEN prev ELSE Append(prev, b)

\* The new address of every block, given the blocks owned, in order
Addresses(own) ==
    [b \in Blocks |->
        IF \E k \in DOMAIN own : own[k] = b
        THEN CHOOSE k \in DOMAIN own : own[k] = b
        ELSE Len(own) + Cardinality({c \in 1..b : \A k \in DOMAIN own : own[k] # c})]

Done(vs, h, call) ==
    LET own == OwnedBlocks(vs, Len(VecOrder))
    IN /\ IF \A k \in DOMAIN own : own[k] = k
          THEN vec' = vs /\ heap' = h
          ELSE LET addr == Addresses(own)
               IN /\ vec' = [x \in Vecs |->
                               IF vs[x].buffer = NullPtr THEN vs[x]
                               ELSE [vs[x] EXCEPT !.buffer = addr[vs[x].buffer]]]
                  /\ heap' = [n \in Blocks |-> h[CHOOSE b \in Blocks : addr[b] = n]]
       /\ last' = call
       /\ UNCHANGED T

Done1(v, o, call) == Done([vec EXCEPT ![v] = o.vr], o.heap, call)

Done2(v, w, o, call) == Done([vec EXCEPT ![v] = o.vr, ![w] = o.wr], o.heap, call)

\* The slots [0, size_) of the Vector hold objects and no other slot of its
\* block does
Consistent(vr, h) ==
    LET s == Slots(h, vr.buffer)
    IN /\ Len(s) = vr.capacity
       /\ vr.size <= vr.capacity
       /\ ~AnyRaw(s, 1, vr.size)
       /\ ~AnyLive(s, vr.size + 1, vr.capacity - vr.size)

\* A run is followed up to its first fault: a call that ran into undefined
\* behaviour or lost an element ends it, and on a Vector left inconsistent
\* only the destructor is still called
Sound == ~last.ub /\ ~last.leak

Healthy == \A v \in Vecs : Consistent(vec[v], heap)

CanCall == Sound /\ Healthy

DefaultCtor(v, d) ==
    /\ CanCall
    /\ ~vec[v].alive
    /\ Done1(v, Outcome(EmptyVector, heap, "ok", -1, FALSE, FALSE),
             Call(d, "Vector", v, v, -1, 0, Default, 0, FALSE,
                  Outcome(EmptyVector, heap, "ok", -1, FALSE, FALSE)))

SizedCtor(v, d) ==
    /\ CanCall
    /\ ~vec[v].alive
    /\ \E n \in 0..Cap(d) : \E fail \in {0, 1} :
          \E o \in {SizedCtorOp(heap, n, fail)} :
             /\ fail = 1 => n > 0
             /\ Done1(v, o, Call(d, "VectorN", v, v, n, 0, Default, fail, n > 0, o))

CopyCtor(v, d) ==
    /\ CanCall
    /\ ~vec[v].alive
    /\ \E w \in Vecs \ {v} :
          /\ vec[w].alive
          /\ \E fail \in {0} \cup {1 + k : k \in 1..vec[w].size} : \E g \in Garbage(vec[w]) :
                \E o \in {CopyCtorOp(heap, vec[w], fail, g)} :
                   Done1(v, o, Call(d, "CopyCtor", v, w, -1, 0, Default, fail, vec[w].size > 0, o))

MoveCtor(v, d) ==
    /\ CanCall
    /\ ~vec[v].alive
    /\ \E w \in Vecs \ {v} :
          /\ vec[w].alive
          /\ LET o == MoveCtorOp(vec[w], heap)
             IN Done2(v, w, o, Call(d, "MoveCtor", v, w, -1, 0, Default, 0, FALSE, o))

Dtor(v, d) ==
    /\ Sound
    /\ vec[v].alive
    /\ LET o == DtorOp(vec[v], heap)
       IN Done1(v, o, Call(d, "Dtor", v, v, -1, 0, Default, 0, FALSE, o))

\* Vector::PushBack(const T&), PushBack(T&&): EmplaceBack(value)
PushBack(v, d) ==
    /\ CanCall
    /\ vec[v].alive
    /\ CanGrow(vec[v], d)
    /\ LET vr == vec[v]
           grow == vr.size = vr.capacity
       IN \E arg \in Args(vr) : \E fail \in {0, 1} \cup CopyFails(vr, grow) : \E g \in Garbage(vr) :
             \E o \in {EmplaceBackOp(vr, heap, arg, fail, g)} :
                Done1(v, o, Call(d, "PushBack", v, v, vr.size, arg.alias,
                                 ArgValue(Slots(heap, vr.buffer), arg, g), fail, grow, o))

\* Vector::Insert(const_iterator, const T&), Insert(const_iterator, T&&): Emplace(pos, value)
Insert(v, d) ==
    /\ CanCall
    /\ vec[v].alive
    /\ CanGrow(vec[v], d)
    /\ LET vr == vec[v]
           grow == vr.size = vr.capacity
       IN \E pos \in 0..vr.size : \E arg \in Args(vr) :
          \E fail \in {0, 1} \cup CopyFails(vr, grow) : \E g \in Garbage(vr) :
             \E o \in {EmplaceOp(vr, heap, pos, arg, fail, g)} :
                Done1(v, o, [Call(d, "Insert", v, v, pos, arg.alias,
                                  ArgValue(Slots(heap, vr.buffer), arg, g), fail, grow, o)
                               EXCEPT !.orig = IF d /\ o.res = "ok"
                                               THEN SubSeq(Slots(heap, vr.buffer), 1, vr.size)
                                               ELSE <<>>])

Erase(v, d) ==
    /\ CanCall
    /\ vec[v].alive
    /\ LET vr == vec[v]
       IN \E pos \in 0..(vr.size - 1) : \E g \in Garbage(vr) :
             \E o \in {EraseOp(vr, heap, pos, g)} :
                LET round == /\ d /\ last.op = "Insert" /\ last.res = "ok"
                             /\ last.v = v /\ last.ret = pos
                IN Done1(v, o, [Call(d, "Erase", v, v, pos, 0, Default, 0, FALSE, o)
                                  EXCEPT !.round = round,
                                         !.orig = IF round THEN last.orig ELSE <<>>])

\* Erase(end())
EraseEnd(v, d) ==
    /\ CanCall
    /\ vec[v].alive
    /\ LET o == EraseEndOp(vec[v], heap)
       IN Done1(v, o, Call(d, "Erase", v, v, vec[v].size, 0, Default, 0, FALSE, o))

PopBack(v, d) ==
    /\ CanCall
    /\ vec[v].alive
    /\ vec[v].size > 0
    /\ LET o == PopBackOp(vec[v], heap)
       IN Done1(v, o, Call(d, "PopBack", v, v, -1, 0, Default, 0, FALSE, o))

Resize(v, d) ==
    /\ CanCall
    /\ vec[v].alive
    /\ LET vr == vec[v]
       IN \E n \in 0..Cap(d) :
          \E fail \in {0} \cup (IF n > vr.size THEN {1} ELSE {}) \cup CopyFails(vr, n > vr.capacity) :
          \E g \in Garbage(vr) :
             \E o \in {ResizeOp(vr, heap, n, fail, g)} :
                Done1(v, o, Call(d, "Resize", v, v, n, 0, Default, fail, n > vr.capacity, o))

Reserve(v, d) ==
    /\ CanCall
    /\ vec[v].alive
    /\ LET vr == vec[v]
       IN \E n \in 0..Cap(d) : \E fail \in {0} \cup CopyFails(vr, n > vr.capacity) :
          \E g \in Garbage(vr) :
             \E o \in {ReserveOp(vr, heap, n, fail, g)} :
                Done1(v, o, Call(d, "Reserve", v, v, n, 0, Default, fail, n > vr.capacity, o))

SetElem(v, d) ==
    /\ CanCall
    /\ vec[v].alive
    /\ \E i \in 0..(vec[v].size - 1) : \E x \in Values :
          \E o \in {SetElemOp(vec[v], heap, i, x)} :
             Done1(v, o, Call(d, "SetElem", v, v, i, 0, x, 0, FALSE, o))

\* a = b; this == &rhs leaves only size_ = rhs.Size()
CopyAssign(v, d) ==
    /\ CanCall
    /\ vec[v].alive
    /\ \E w \in Vecs :
          /\ vec[w].alive
          /\ IF w = v
             THEN Done1(v, Outcome(vec[v], heap, "ok", -1, FALSE, FALSE),
                        Call(d, "CopyAssign", v, v, -1, 0, Default, 0, FALSE,
                             Outcome(vec[v], heap, "ok", -1, FALSE, FALSE)))
             ELSE \E fail \in {0} \cup {1 + k : k \in 1..vec[w].size} :
                  \E g \in Garbage(vec[w]) :
                     \E o \in {CopyAssignOp(vec[v], vec[w], heap, fail, g)} :
                        Done2(v, w, o, Call(d, "CopyAssign", v, w, -1, 0, Default, fail,
                                            vec[w].size > vec[v].capacity, o))

\* a = std::move(b); this == &rhs does nothing
MoveAssign(v, d) ==
    /\ CanCall
    /\ vec[v].alive
    /\ \E w \in Vecs :
          /\ vec[w].alive
          /\ IF w = v
             THEN Done1(v, Outcome(vec[v], heap, "ok", -1, FALSE, FALSE),
                        Call(d, "MoveAssign", v, v, -1, 0, Default, 0, FALSE,
                             Outcome(vec[v], heap, "ok", -1, FALSE, FALSE)))
             ELSE LET o == MoveAssignOp(vec[v], vec[w], heap)
                  IN Done2(v, w, o, Call(d, "MoveAssign", v, w, -1, 0, Default, 0,
                                         vec[w].size > vec[v].capacity, o))

Swap(v, d) ==
    /\ CanCall
    /\ vec[v].alive
    /\ \E w \in Vecs \ {v} :
          /\ vec[w].alive
          /\ LET o == SwapOp(vec[v], vec[w], heap)
             IN Done2(v, w, o, Call(d, "Swap", v, w, -1, 0, Default, 0, FALSE, o))

Init ==
    /\ vec = [v \in Vecs |-> IF v = "a" THEN EmptyVector ELSE NoVector]
    /\ heap = [b \in Blocks |-> <<>>]
    /\ T \in TypeKinds
    /\ last = NoCall

Next ==
    \E v \in Vecs :
       \/ Dtor(v, FALSE)
       \/ DefaultCtor(v, FALSE)
       \/ SizedCtor(v, FALSE)
       \/ CopyCtor(v, FALSE)
       \/ MoveCtor(v, FALSE)
       \/ PushBack(v, FALSE)
       \/ Insert(v, FALSE)
       \/ Erase(v, FALSE)
       \/ PopBack(v, FALSE)
       \/ Resize(v, FALSE)
       \/ Reserve(v, FALSE)
       \/ SetElem(v, FALSE)
       \/ CopyAssign(v, FALSE)
       \/ MoveAssign(v, FALSE)
       \/ Swap(v, FALSE)

\* Two vectors of a T whose move leaves the moved-from object changed
InitTwo == Init /\ T.move_clears

Spec == InitTwo /\ [][Next]_vars

\* One vector alone
NextOne ==
    \/ Dtor("a", TRUE)
    \/ DefaultCtor("a", TRUE)
    \/ SizedCtor("a", TRUE)
    \/ PushBack("a", TRUE)
    \/ Insert("a", TRUE)
    \/ Erase("a", TRUE)
    \/ PopBack("a", TRUE)
    \/ Resize("a", TRUE)
    \/ Reserve("a", TRUE)
    \/ SetElem("a", TRUE)

SpecOne == Init /\ [][NextOne]_vars

\* One vector alone, with every call the assertions of the methods let through
NextAssert ==
    \/ NextOne
    \/ EraseEnd("a", TRUE)

SpecAssert == Init /\ [][NextAssert]_vars

\* ------------------------------------------------- RawMemory on its own
\* A RawMemory object is a record with size 0: buffer_ and capacity_ only.
\* RawMemory::RawMemory(size_t capacity)
RawCtorOp(h, n) ==
    LET nb == Allocate(h, n)
    IN Outcome([alive |-> TRUE, buffer |-> nb, capacity |-> n, size |-> 0],
               Allocated(h, nb, n), "ok", -1, FALSE, FALSE)

\* RawMemory::RawMemory(RawMemory&& other): buffer_ and capacity_ are copied
\* from other, whose members are not written
RawMoveCtorOp(wr, h) ==
    Outcome2([alive |-> TRUE, buffer |-> wr.buffer, capacity |-> wr.capacity, size |-> 0],
             wr, h, "ok", FALSE, FALSE)

\* RawMemory::operator=(RawMemory&& rhs): the two members are overwritten with
\* those of rhs; the function then flows off its end without the return its
\* type asks for, which is undefined behaviour
RawMoveAssignOp(vr, wr, h) ==
    Outcome2([vr EXCEPT !.buffer = wr.buffer, !.capacity = wr.capacity],
             wr, h, "ok", TRUE, FALSE)

\* RawMemory::Swap
RawSwapOp(vr, wr, h) == Outcome2(wr, vr, h, "ok", FALSE, FALSE)

\* RawMemory::~RawMemory: Deallocate(buffer_); releasing a block that is
\* already released is undefined behaviour
RawDtorOp(vr, h) ==
    Outcome(NoVector, Deallocate(h, vr.buffer), "ok", -1,
            vr.buffer # NullPtr /\ h[vr.buffer] = <<>>, FALSE)

RawCtor(v) ==
    /\ Sound
    /\ ~vec[v].alive
    /\ \E n \in 0..MaxCap :
          /\ n > 0 => \E b \in Blocks : heap[b] = <<>>
          /\ LET o == RawCtorOp(heap, n)
             IN Done1(v, o, Call(TRUE, "RawMemory", v, v, n, 0, Default, 0, n > 0, o))

RawMoveCtor(v) ==
    /\ Sound
    /\ ~vec[v].alive
    /\ \E w \in Vecs \ {v} :
          /\ vec[w].alive
          /\ LET o == RawMoveCtorOp(vec[w], heap)
             IN Done2(v, w, o, Call(TRUE, "RawMoveCtor", v, w, -1, 0, Default, 0, FALSE, o))

RawMoveAssign(v) ==
    /\ Sound
    /\ vec[v].alive
    /\ \E w \in Vecs \ {v} :
          /\ vec[w].alive
          /\ LET o == RawMoveAssignOp(vec[v], vec[w], heap)
             IN Done2(v, w, o, Call(TRUE, "RawMoveAssign", v, w, -1, 0, Default, 0, FALSE, o))

RawSwap(v) ==
    /\ Sound
    /\ vec[v].alive
    /\ \E w \in Vecs \ {v} :
          /\ vec[w].alive
          /\ LET o == RawSwapOp(vec[v], vec[w], heap)
             IN Done2(v, w, o, Call(TRUE, "RawSwap", v, w, -1, 0, Default, 0, FALSE, o))

RawDtor(v) ==
    /\ Sound
    /\ vec[v].alive
    /\ LET o == RawDtorOp(vec[v], heap)
       IN Done1(v, o, Call(TRUE, "RawDtor", v, v, -1, 0, Default, 0, FALSE, o))

\* Two RawMemory objects, "a" default-constructed
NextRaw ==
    \E v \in Vecs :
       \/ RawCtor(v)
       \/ RawMoveCtor(v)
       \/ RawMoveAssign(v)
       \/ RawSwap(v)
       \/ RawDtor(v)

SpecRaw == Init /\ [][NextRaw]_vars

\* ------------------------------------------------------------ observations
\* Size(), Capacity() and the elements a caller reads at [0], ..., [Size() - 1]
Size(v) == vec[v].size

Capacity(v) == vec[v].capacity

Block(v) == Slots(heap, vec[v].buffer)

Elems(v) == [i \in 1..vec[v].size |-> IF i \in DOMAIN Block(v) THEN Block(v)[i] ELSE Raw]

\* s[0..i) ++ [x] ++ s[i..size)
InsertAt(s, i, x) == SubSeq(s, 1, i) \o <<x>> \o SubSeq(s, i + 1, Len(s))

\* s[0..i) ++ s[i+1..size)
RemoveAt(s, i) == SubSeq(s, 1, i) \o SubSeq(s, i + 2, Len(s))

\* ------------------------------------------------------------------- claims
\* C1: every Vector object, the source of a copy or move and a vector on which
\* a call has just failed included, has 0 <= Size() <= Capacity() after any
\* sequence of public calls.
C1_SizeWithinCapacity ==
    \A v \in Vecs : vec[v].alive => 0 <= Size(v) /\ Size(v) <= Capacity(v)

\* C1 witness: the source of a move assignment that kept a non-zero size
C1_Witness ==
    /\ last.op = "MoveAssign" /\ last.v # last.w /\ ~last.grow
    /\ Size(last.w) > 0

\* C2: a successful PushBack(x), x a value of its own or a reference to an
\* element of the vector, with or without growth: Size() grows by exactly 1,
\* the last element is the value x had before the call, the elements at
\* [0, old size) keep value and order, and Capacity() does not decrease.
C2_PushBackAppends ==
    [][\A v \in Vecs :
          (last'.op = "PushBack" /\ last'.v = v /\ last'.res = "ok") =>
          LET x == IF last'.alias = 0 THEN last'.val ELSE Elems(v)[last'.alias]
          IN /\ Size(v)' = Size(v) + 1
             /\ Elems(v)' = Append(Elems(v), x)
             /\ Capacity(v)' >= Capacity(v)]_vars

\* C2 witness: a PushBack of a reference to an element of the vector that had
\* to grow, for a T whose move changes the moved-from object
C2_Witness ==
    /\ last.op = "PushBack" /\ last.res = "ok" /\ last.alias > 0 /\ last.grow
    /\ T.move_clears /\ Size(last.v) = 3 /\ Elems(last.v)[3] = 1

\* C3: a successful Insert at index i, 0 <= i <= Size(), of a value x that is
\* not stored in the vector yields s[0..i) ++ [x] ++ s[i..size), Size() grown
\* by exactly 1, and returns an iterator to index i, with and without growth.
C3_InsertPlaces ==
    [][\A v \in Vecs :
          (last'.op = "Insert" /\ last'.v = v /\ last'.res = "ok" /\ last'.alias = 0) =>
             /\ Elems(v)' = InsertAt(Elems(v), last'.pos, last'.val)
             /\ Size(v)' = Size(v) + 1
             /\ last'.ret = last'.pos]_vars

\* C3 witness: an Insert in the middle of a full vector, which had to grow
C3_Witness ==
    /\ last.op = "Insert" /\ last.res = "ok" /\ last.alias = 0 /\ last.grow
    /\ last.pos = 1 /\ Size(last.v) = 3 /\ Elems(last.v) = <<0, 1, 1>>

\* C4: Insert(begin() + i, v[j]), the argument a reference to an element of
\* the vector, i < Size(), j < Size(), yields s[0..i) ++ [s[j]] ++ s[i..size)
\* for every element type, with and without reallocation.
C4_SelfInsertSafe ==
    [][\A v \in Vecs :
          (/\ last'.op = "Insert" /\ last'.v = v /\ last'.res = "ok"
           /\ last'.alias > 0 /\ last'.pos < Size(v)) =>
             Elems(v)' = InsertAt(Elems(v), last'.pos, Elems(v)[last'.alias])]_vars

\* C5: when the constructor of the new element throws in PushBack/EmplaceBack,
\* with or without growth, Size(), Capacity() and the elements are as before.
C5_AppendCtorThrowKeepsAll ==
    [][\A v \in Vecs :
          (/\ last'.v = v /\ last'.res = "throw" /\ last'.fail = 1
           /\ \/ last'.op = "PushBack"
              \/ last'.op = "Insert" /\ last'.pos = Size(v)) =>
             /\ Size(v)' = Size(v)
             /\ Capacity(v)' = Capacity(v)
             /\ Elems(v)' = Elems(v)]_vars

\* C5 witness: the constructor threw in a PushBack on a full vector of 2
C5_Witness ==
    /\ last.op = "PushBack" /\ last.res = "throw" /\ last.fail = 1 /\ last.grow
    /\ Elems(last.v) = <<1, 0>>

\* C6: when the construction of the new value throws in Insert/Emplace at a
\* position before end(), the vector is as before the call: same Size() and
\* every element with its value, with and without growth, for every T.
C6_InsertCtorThrowKeepsAll ==
    [][\A v \in Vecs :
          (/\ last'.op = "Insert" /\ last'.v = v /\ last'.res = "throw"
           /\ last'.fail = 1 /\ last'.pos < Size(v)) =>
             /\ Size(v)' = Size(v)
             /\ Elems(v)' = Elems(v)]_vars

\* C7: for a T whose move may throw, when the copy of an existing element into
\* the new buffer throws in a growing PushBack/EmplaceBack, Insert/Emplace or
\* Reserve, the vector is unchanged: same buffer, Capacity(), Size(), elements.
C7_CopyThrowKeepsVector ==
    [][\A v \in Vecs :
          (/\ last'.op \in {"PushBack", "Insert", "Reserve"} /\ last'.v = v
           /\ last'.res = "throw" /\ last'.fail > 1) =>
             /\ vec'[v] = vec[v]
             /\ Block(v)' = Block(v)
             /\ heap' = heap]_vars

\* C7 witness: the copy of the second of three elements threw in an Insert at
\* index 1 on a full vector
C7_Witness ==
    /\ last.op = "Insert" /\ last.res = "throw" /\ last.fail = 3 /\ last.grow
    /\ last.pos = 1 /\ ~T.nothrow_move /\ Elems(last.v) = <<1, 0>>

\* The number of blocks allocated
BlocksInUse == Cardinality({b \in Blocks : heap[b] # <<>>})

\* C8: after move construction from r, or a = std::move(r) with a and r
\* distinct, the destination has r's prior Size() and r's prior elements in
\* order; no block is allocated and no element constructed or assigned: the
\* two blocks change hands with their slots as they were.
C8_MoveTransfers ==
    [][\A v, w \in Vecs :
          (/\ last'.op \in {"MoveCtor", "MoveAssign"}
           /\ last'.v = v /\ last'.w = w /\ v # w) =>
             /\ last'.res = "ok"
             /\ Size(v)' = Size(w)
             /\ Elems(v)' = Elems(w)
             /\ Block(v)' = Block(w)
             /\ Block(w)' = Block(v)
             /\ BlocksInUse' = BlocksInUse]_vars

\* C8 witness: a move assignment into a vector whose capacity was enough gave
\* it an element, and the source a block
C8_Witness ==
    /\ last.op = "MoveAssign" /\ last.v # last.w /\ ~last.grow
    /\ Size(last.v) > 0 /\ Capacity(last.w) > 0

\* C9: after move construction from r or a = std::move(r), r is valid: exactly
\* the slots [0, r.Size()) of the block r now owns hold constructed elements.
C9_MoveSourceValid ==
    (last.op \in {"MoveCtor", "MoveAssign"} /\ last.v # last.w) =>
        Consistent(vec[last.w], heap)

\* C10: after copy construction b(a) or copy assignment b = a, reallocating or
\* not, a and b own distinct blocks; and a call that mutates one vector (an
\* element write, PushBack, Insert, Erase, PopBack, Resize, Reserve, the
\* destructor) leaves Size(), Capacity() and the elements of the other as
\* they were.
C10_CopyIndependent ==
    [][\A v, w \in Vecs :
          /\ (/\ last'.op \in {"CopyCtor", "CopyAssign"} /\ last'.res = "ok"
              /\ last'.v = v /\ last'.w = w /\ v # w) =>
                /\ vec'[v].buffer = vec'[w].buffer => vec'[v].buffer = NullPtr
                /\ Elems(v)' = Elems(w)
                /\ Size(w)' = Size(w) /\ Capacity(w)' = Capacity(w) /\ Elems(w)' = Elems(w)
          /\ (/\ last'.op \in {"SetElem", "PushBack", "Insert", "Erase", "PopBack",
                               "Resize", "Reserve", "Dtor"}
              /\ last'.v = v /\ w # v /\ vec[w].alive) =>
                /\ vec'[w].alive
                /\ Size(w)' = Size(w) /\ Capacity(w)' = Capacity(w) /\ Elems(w)' = Elems(w)]_vars

\* C10 witness: a copy assignment into a vector whose capacity was enough, of
\* a vector that is not empty
C10_Witness ==
    /\ last.op = "CopyAssign" /\ last.res = "ok" /\ last.v # last.w /\ ~last.grow
    /\ Size(last.w) > 0 /\ Elems(last.v) = Elems(last.w)

\* C11: a successful copy assignment a = b leaves b unchanged and gives a the
\* Size() and the elements of b; when b.Size() > a.Capacity() a reallocates
\* and ends with Capacity() >= b.Size(); otherwise a keeps its buffer and its
\* Capacity(), and the elements of a beyond b.Size() are destroyed; a = a
\* changes nothing.
C11_CopyAssign ==
    [][\A v, w \in Vecs :
          (/\ last'.op = "CopyAssign" /\ last'.res = "ok"
           /\ last'.v = v /\ last'.w = w) =>
             IF v = w
             THEN vec' = vec /\ heap' = heap /\ ~last'.moved
             ELSE /\ Size(w)' = Size(w) /\ Capacity(w)' = Capacity(w)
                  /\ Block(w)' = Block(w)
                  /\ Size(v)' = Size(w)
                  /\ Elems(v)' = Elems(w)
                  /\ last'.grow = (Size(w) > Capacity(v))
                  /\ last'.grow => last'.moved /\ Capacity(v)' >= Size(w)
                  /\ ~last'.grow => ~last'.moved /\ Capacity(v)' = Capacity(v)
                  /\ \A i \in DOMAIN Block(v)' : i > Size(w) => Block(v)'[i] = Raw]_vars

\* C11 witness: a copy assignment of a vector of one element into a vector of
\* capacity 2, which keeps its buffer
C11_Witness ==
    /\ last.op = "CopyAssign" /\ last.res = "ok" /\ last.v # last.w
    /\ ~last.grow /\ ~last.moved
    /\ Size(last.v) = 1 /\ Capacity(last.v) = 2 /\ Capacity(last.w) = 1

\* C12: a successful PushBack/EmplaceBack/Emplace/Insert called with
\* Size() = Capacity() = c ends with Capacity() = max(1, 2 * c); called with
\* Size() < Capacity() it leaves Capacity() and the buffer as they were; and
\* no PushBack, EmplaceBack, Emplace, Insert, Erase, PopBack, Resize or
\* Reserve, successful or not, decreases Capacity().
C12_GrowthPolicy ==
    [][\A v \in Vecs :
          /\ (/\ last'.op \in {"PushBack", "Insert"} /\ last'.res = "ok"
              /\ last'.v = v) =>
                IF Size(v) = Capacity(v)
                THEN /\ Capacity(v)' = (IF 2 * Capacity(v) > 1 THEN 2 * Capacity(v) ELSE 1)
                     /\ last'.moved
                ELSE /\ Capacity(v)' = Capacity(v)
                     /\ ~last'.moved
          /\ (/\ last'.op \in {"PushBack", "Insert", "Erase", "PopBack", "Resize", "Reserve"}
              /\ last'.v = v) =>
                Capacity(v)' >= Capacity(v)]_vars

\* C12 witness: an Insert before end() on a full vector of capacity 2 ended
\* with capacity 4
C12_Witness ==
    /\ last.op = "Insert" /\ last.res = "ok" /\ last.grow /\ last.moved
    /\ last.pos = 0 /\ Size(last.v) = 3 /\ Capacity(last.v) = 4

\* C13: Erase(begin() + i), i < Size(), yields s[0..i) ++ s[i+1..size) with
\* Size() one less, destroys one element, the one in the last slot, keeps the
\* buffer and Capacity(), and returns an iterator to index i.
C13_EraseRemoves ==
    [][\A v \in Vecs :
          (last'.op = "Erase" /\ last'.v = v) =>
             /\ last'.res = "ok"
             /\ Elems(v)' = RemoveAt(Elems(v), last'.pos)
             /\ Size(v)' = Size(v) - 1
             /\ Capacity(v)' = Capacity(v)
             /\ ~last'.moved
             /\ last'.ret = last'.pos
             /\ \A i \in DOMAIN Block(v) :
                   (Block(v)'[i] = Raw) = (Block(v)[i] = Raw \/ i = Size(v))]_vars

\* C13 witness: Erase at index 1 of a vector of 4 elements left <<1, 0, 1>>
C13_Witness ==
    /\ last.op = "Erase" /\ last.res = "ok" /\ last.pos = 1
    /\ Elems(last.v) = <<1, 0, 1>>

\* C14: it = Insert(begin() + i, x), 0 <= i <= Size(), followed by Erase(it)
\* restores the elements and the Size() the vector had before the Insert,
\* whether the Insert reallocated or not.
C14_InsertEraseRoundTrip ==
    (last.op = "Erase" /\ last.round) =>
        /\ Size(last.v) = Len(last.orig)
        /\ Elems(last.v) = last.orig

\* C14 witness: <<1, 0>> in a block of capacity 2, an Insert at index 1, which
\* reallocated, and the Erase at the iterator it returned
C14_Witness ==
    /\ last.op = "Erase" /\ last.round /\ last.pos = 1
    /\ last.orig = <<1, 0>> /\ Capacity(last.v) = 4

\* C15: a successful Resize(n) ends with Size() = n.  With n > Size() the old
\* elements are unchanged, the new ones value-initialised and Capacity() >= n;
\* with n < Size() the elements from index n on are destroyed, the first n
\* and Capacity() unchanged; with n = Size() nothing changes.
C15_Resize ==
    [][\A v \in Vecs :
          (last'.op = "Resize" /\ last'.res = "ok" /\ last'.v = v) =>
             LET n == last'.pos
             IN /\ Size(v)' = n
                /\ n > Size(v) =>
                      /\ Elems(v)' = Elems(v) \o [i \in 1..(n - Size(v)) |-> Default]
                      /\ Capacity(v)' >= n
                /\ n < Size(v) =>
                      /\ Elems(v)' = SubSeq(Elems(v), 1, n)
                      /\ Capacity(v)' = Capacity(v)
                      /\ ~last'.moved
                      /\ \A i \in DOMAIN Block(v) : i > n => Block(v)'[i] = Raw
                /\ n = Size(v) => vec' = vec /\ heap' = heap /\ ~last'.moved]_vars

\* C15 witness: Resize(3) of a vector of two elements in a smaller block
C15_Witness ==
    /\ last.op = "Resize" /\ last.res = "ok" /\ last.grow /\ last.pos = 3
    /\ Elems(last.v) = <<1, 1, 0>>

\* C16: Reserve(n) with n <= Capacity() changes nothing; a successful
\* Reserve(n) with n > Capacity() ends with Capacity() = n, in another block,
\* and with Size() and the elements as they were.
C16_Reserve ==
    [][\A v \in Vecs :
          (last'.op = "Reserve" /\ last'.v = v) =>
             LET n == last'.pos
             IN /\ n <= Capacity(v) =>
                      /\ last'.res = "ok" /\ ~last'.moved
                      /\ vec' = vec /\ heap' = heap
                /\ (n > Capacity(v) /\ last'.res = "ok") =>
                      /\ Capacity(v)' = n
                      /\ last'.moved
                      /\ Size(v)' = Size(v)
                      /\ Elems(v)' = Elems(v)]_vars

\* C16 witness: Reserve(4) of a vector of <<0, 1>> whose elements are copied
C16_Witness ==
    /\ last.op = "Reserve" /\ last.res = "ok" /\ last.grow /\ last.pos = 4
    /\ ~T.nothrow_move /\ Elems(last.v) = <<0, 1>>

\* C17: after move construction or move assignment of a RawMemory the source
\* has capacity 0 and no block; no block is owned by two live RawMemory
\* objects, so none is released twice; and every allocated block has an
\* owner, so the block the destination owned before is not left unreleased.
C17_RawMemoryExclusive ==
    /\ (last.op \in {"RawMoveCtor", "RawMoveAssign"}) =>
          /\ vec[last.w].buffer = NullPtr
          /\ vec[last.w].capacity = 0
    /\ \A v, w \in Vecs :
          (v # w /\ vec[v].alive /\ vec[w].alive /\ vec[v].buffer = vec[w].buffer) =>
             vec[v].buffer = NullPtr
    /\ \A b \in Blocks :
          heap[b] # <<>> => \E v \in Vecs : vec[v].alive /\ vec[v].buffer = b
    /\ last.op = "RawDtor" => ~last.ub

\* C18: after every successful call of a constructor, PushBack, EmplaceBack,
\* Emplace, Insert, Erase, PopBack, Resize, Reserve or copy assignment,
\* exactly the slots [0, Size()) of the vector's block hold constructed
\* elements; and the call constructed no element in a live slot, and
\* destroyed, read or assigned to no uninitialised slot.
C18_SlotsLive ==
    (/\ last.op \in {"Vector", "VectorN", "CopyCtor", "MoveCtor", "PushBack", "Insert",
                     "Erase", "PopBack", "Resize", "Reserve", "CopyAssign"}
     /\ last.res = "ok") =>
        /\ Consistent(vec[last.v], heap)
        /\ ~last.ub
        /\ ~last.leak

\* C18 witness: an Insert into a block with room left a vector of two elements
C18_Witness ==
    /\ last.op = "Insert" /\ last.res = "ok" /\ ~last.grow /\ ~last.moved
    /\ Size(last.v) = 2 /\ Capacity(last.v) = 2 /\ Elems(last.v) = <<1, 0>>

\* C19: when a growing EmplaceBack/PushBack or Emplace/Insert is abandoned
\* because the copy of an existing element into the new buffer throws, every
\* element constructed in the new buffer, the new element included, is
\* destroyed before the buffer is released.
C19_RollbackDestroysAll ==
    (/\ last.op \in {"PushBack", "Insert"}
     /\ last.res = "throw" /\ last.fail > 1) =>
        ~last.leak

\* C20: every Erase whose position passes the assertion
\* begin() <= pos <= end(), pos = end() and an empty vector included, runs
\* into no undefined behaviour, destroys only a live element, and leaves
\* 0 <= Size() <= Capacity().
C20_EraseAssertSuffices ==
    (last.op = "Erase") =>
        /\ ~last.ub
        /\ 0 <= Size(last.v)
        /\ Size(last.v) <= Capacity(last.v)

====
